---- MODULE Spec2Model ----
(***************************************************************************)
(* Model of the agent simulation engine (Sim, ComputePowerTable, WinCount)  *)
(* and of the multisig actor state helpers.                                 *)
(*                                                                         *)
(* float64 values are modelled as fixed-point numbers with Scale units per  *)
(* 1.0, every multiplication/division rounding to the nearest unit, sums    *)
(* and differences being exact.                                             *)
(***************************************************************************)
EXTENDS Integers, Sequences, FiniteSets, TLC

VARIABLES sim, tick, twin, wc, ms

vars == <<sim, tick, twin, wc, ms>>

(***************************************************************************)
(* Bounds of the model                                                      *)
(***************************************************************************)
MaxTicks == 5
MaxPower == 3
MaxSeed == 1
\* the number of Tick calls that the ledger or an agent may fail
MaxFaults == 1

(***************************************************************************)
(* Fixed-point arithmetic standing for float64                              *)
(***************************************************************************)
Scale == 10000
ExpTerms == 30

RoundDiv(a, b) == (2 * a + b) \div (2 * b)

\* the expected number of block wins per epoch, E
ExpectedLeaders == 5

RECURSIVE ExpSeries(_, _, _, _)
\* sum_{i >= n} lambda^i / i!, in fixed point, given the term for i = n-1
ExpSeries(num, den, n, prev) ==
    IF n > ExpTerms \/ prev = 0 THEN 0
    ELSE LET term == RoundDiv(prev * num, den * n)
         IN  term + ExpSeries(num, den, n + 1, term)

\* math.Exp(-lambda) for lambda = num/den
ExpNeg(num, den) ==
    RoundDiv(Scale * Scale, Scale + ExpSeries(num, den, 1, Scale))

RECURSIVE PMFFrom(_, _, _)
\* exp(-lambda) * lambda^k / k!, the factorial and the power accumulated
\* factor by factor
PMFFrom(num, den, k) ==
    IF k = 0 THEN ExpNeg(num, den)
    ELSE RoundDiv(PMFFrom(num, den, k - 1) * num, den * k)

\* a pow(0, 0) that yields 0 instead of 1
poissonPMFZeroPow(num, den, k) ==
    IF num = 0 THEN 0 ELSE PMFFrom(num, den, k)

poissonPMF(num, den, k) == PMFFrom(num, den, k)

(***************************************************************************)
(* The seeded random source (math/rand): a full-period congruential        *)
(* generator over RndMod values                                            *)
(***************************************************************************)
RndMod == 16
RndMul == 5
RndInc == 3

RndNext(r) == (RndMul * r + RndInc) % RndMod

\* a source seeded from ambient entropy instead of the configured seed
SeedSourceAmbient(config, ambient) == (config.Seed + ambient) % RndMod

\* rand.New(rand.NewSource(config.Seed)); nothing ambient enters the source
SeedSource(config, ambient) == config.Seed % RndMod

\* Float32() and Float64(): a value in [0,1) and the advanced source
Float(r) == [val |-> (RndNext(r) * Scale) \div RndMod, rnd |-> RndNext(r)]

\* int31n(n): a value in 0..n-1 and the advanced source
Intn(r, n) == [val |-> (RndNext(r) * n) \div RndMod, rnd |-> RndNext(r)]

Swap(seq, i, j) == [seq EXCEPT ![i] = seq[j], ![j] = seq[i]]

RECURSIVE ShuffleFrom(_, _, _)
\* for i := n-1; i > 0; i-- { j := int31n(i+1); swap(i, j) }  (1-based here)
ShuffleFrom(msgs, r, i) ==
    IF i <= 1 THEN [msgs |-> msgs, rnd |-> r]
    ELSE LET d == Intn(r, i)
         IN  ShuffleFrom(Swap(msgs, i, d.val + 1), d.rnd, i - 1)

\* a shuffle that loses a request: after the swaps the last position holds a
\* copy of the first one
ShuffleOverwrite(msgs, r) ==
    LET sh == ShuffleFrom(msgs, r, Len(msgs))
    IN  [sh EXCEPT !.msgs = [k \in 1..Len(msgs) |->
                                IF k = Len(msgs) THEN sh.msgs[1] ELSE sh.msgs[k]]]

Shuffle(msgs, r) == ShuffleFrom(msgs, r, Len(msgs))

(***************************************************************************)
(* WinCount                                                                 *)
(***************************************************************************)
\* the win count the loop leaves with once pow(lambda, k) has overflowed to
\* +Inf and fact(k) to +Inf, so that the PMF is NaN and rhs > h is false
NaNWinCount == 442

\* state of one WinCount call once h is drawn and rhs initialised
WinEnter(minerPower, totalPower, h) ==
    [minerPower |-> minerPower, totalPower |-> totalPower, h |-> h,
     rhs |-> Scale - poissonPMF(ExpectedLeaders * minerPower, totalPower, 0),
     winCount |-> 0, pc |-> "loop"]

\* one evaluation of the loop condition and, if it holds, of the loop body.
\* Once the PMF has underflowed to 0 the body leaves rhs unchanged for good:
\* with lambda > 1 the PMF later becomes NaN and the loop exits, with
\* lambda <= 1 it stays 0 and the loop never exits.
WinStep(w) ==
    LET num == ExpectedLeaders * w.minerPower
        den == w.totalPower
        pmf == poissonPMF(num, den, w.winCount + 1)
    IN  IF w.rhs > w.h
        THEN IF pmf = 0
             THEN IF num > den
                  THEN [w EXCEPT !.winCount = NaNWinCount, !.pc = "done"]
                  ELSE [w EXCEPT !.pc = "hang"]
             ELSE [w EXCEPT !.winCount = @ + 1, !.rhs = @ - pmf]
        ELSE [w EXCEPT !.pc = "done"]

RECURSIVE WinRun(_)
WinRun(w) == IF w.pc = "loop" THEN WinRun(WinStep(w)) ELSE w

\* WinCount(minerPower, totalPower) with the source at r: the final loop
\* state and the advanced source
WinCount(r, minerPower, totalPower) ==
    LET d == Float(r)
    IN  [w |-> WinRun(WinEnter(minerPower, totalPower, d.val)), rnd |-> d.rnd]

(***************************************************************************)
(* The ledger (vm.VM with the power, reward and cron actors)               *)
(***************************************************************************)
MaxAccounts == 3

SystemActorAddr == 0
RewardActorAddr == 2
CronActorAddr == 3
StoragePowerActorAddr == 4
\* ID addresses of the miner actors start above this
MinerBase == 100

\* the consensus minimum of the power actor, scaled down to the powers of
\* this model
ConsensusMinerMinPower == 2
ConsensusMinerMinMiners == 1

NoParams == [Owner |-> 0, Miner |-> 0, WinCount |-> 0]

NilVM == [valid |-> FALSE, epoch |-> 0, claims |-> <<>>, calls |-> 0]

\* vm.NewCustomStoreVMWithSingletons followed by vm.CreateAccounts
NewVM == [valid |-> TRUE, epoch |-> 0, claims |-> <<>>, calls |-> 0]

CreateAccounts(n) == [i \in 1..n |-> i]

MinerIndex(addr) == addr - MinerBase

\* st.GetClaim: found, and the claim
GetClaim(v, addr) ==
    IF MinerIndex(addr) \in DOMAIN v.claims
    THEN v.claims[MinerIndex(addr)]
    ELSE [found |-> FALSE, qaPower |-> 0]

RECURSIVE SumAboveMin(_, _)
SumAboveMin(claims, n) ==
    IF n = 0 THEN 0
    ELSE SumAboveMin(claims, n - 1)
         + (IF claims[n].found /\ claims[n].qaPower >= ConsensusMinerMinPower
            THEN claims[n].qaPower ELSE 0)

\* st.TotalQualityAdjPower: the power of the miners above the minimum only
TotalQualityAdjPower(v) == SumAboveMin(v.claims, Len(v.claims))

MinerAboveMinPowerCount(v) ==
    Cardinality({n \in DOMAIN v.claims :
                    v.claims[n].found /\ v.claims[n].qaPower >= ConsensusMinerMinPower})

\* st.MinerNominalPowerMeetsConsensusMinimum, for a claim that was found
MinerNominalPowerMeetsConsensusMinimum(v, addr) ==
    LET claim == GetClaim(v, addr)
    IN  \/ claim.qaPower >= ConsensusMinerMinPower
        \/ /\ MinerAboveMinPowerCount(v) < ConsensusMinerMinMiners
           /\ claim.qaPower > 0

\* the state change of a message that exits with exitcode.Ok
ApplyEffect(v, msg) ==
    CASE msg.Method = "CreateMiner" ->
            [v EXCEPT !.claims = Append(@, [found |-> TRUE, qaPower |-> 0])]
      [] msg.Method = "ProveCommit" ->
            [v EXCEPT !.claims[MinerIndex(msg.To)].qaPower = @ + 1]
      [] msg.Method = "TerminateMiner" ->
            [v EXCEPT !.claims[MinerIndex(msg.To)] = [found |-> FALSE, qaPower |-> 0]]
      [] OTHER -> v

RECURSIVE EffectOf(_, _)
\* the claims the ledger holds once the messages are applied to v in order
EffectOf(v, msgs) ==
    IF Len(msgs) = 0 THEN v.claims
    ELSE EffectOf(ApplyEffect(v, Head(msgs)), Tail(msgs))

\* v.ApplyMessage: a message that fails leaves the state tree as it was
ApplyMessage(v, msg, code) ==
    LET after == IF code = "Ok" THEN ApplyEffect(v, msg) ELSE v
    IN  [v   |-> [after EXCEPT !.calls = @ + 1],
         ret |-> IF code = "Ok" /\ msg.Method = "CreateMiner"
                 THEN MinerBase + Len(after.claims) ELSE 0]

\* v.WithEpoch: a new handle, or no handle with the error
WithEpoch(v, epoch, ok) ==
    IF ok THEN [v EXCEPT !.epoch = epoch, !.calls = 0] ELSE NilVM

(***************************************************************************)
(* Agents                                                                   *)
(***************************************************************************)
\* NewMinerAgent
NewMinerAgent(owner, idAddress) == [Owner |-> owner, IDAddress |-> idAddress]

AgentMessage(agent, method, handler) ==
    [From |-> agent.Owner, To |-> agent.IDAddress, Value |-> 0, Method |-> method,
     Params |-> [NoParams EXCEPT !.Miner = agent.IDAddress], ReturnHandler |-> handler]

\* what agent.Tick(v) may return besides an error
AgentOutputs(v, agent) ==
    LET claim == GetClaim(v, agent.IDAddress)
    IN  {<<>>}
        \cup (IF claim.found /\ claim.qaPower < MaxPower
              THEN {<<AgentMessage(agent, "ProveCommit", "agent")>>} ELSE {})
        \cup (IF claim.found /\ claim.qaPower > 0
              THEN {<<AgentMessage(agent, "TerminateMiner", "nil")>>} ELSE {})

(***************************************************************************)
(* ComputePowerTable                                                        *)
(***************************************************************************)
ThisEpochReward == 10

RECURSIVE MinerPowerFrom(_, _, _)
\* the loop over the agents: a claim that is found and sufficient is appended
MinerPowerFrom(v, agents, i) ==
    IF i > Len(agents) THEN <<>>
    ELSE LET addr == agents[i].IDAddress
             claim == GetClaim(v, addr)
             rest == MinerPowerFrom(v, agents, i + 1)
         IN  IF claim.found /\ MinerNominalPowerMeetsConsensusMinimum(v, addr)
             THEN <<[addr |-> addr, qaPower |-> claim.qaPower]>> \o rest
             ELSE rest

\* a table that lists every agent, eligible or not
MinerPowerIgnoreMinimum(v, agents) ==
    [i \in 1..Len(agents) |->
        [addr |-> agents[i].IDAddress, qaPower |-> GetClaim(v, agents[i].IDAddress).qaPower]]

MinerPower(v, agents) == MinerPowerFrom(v, agents, 1)

ComputePowerTable(v, agents) ==
    [blockReward |-> ThisEpochReward,
     totalQAPower |-> TotalQualityAdjPower(v),
     minerPower |-> MinerPower(v, agents)]

EmptyPowerTable == [blockReward |-> 0, totalQAPower |-> 0, minerPower |-> <<>>]

(***************************************************************************)
(* Sim                                                                      *)
(***************************************************************************)
\* NewSim
NewSim(config, ambient) ==
    [Config |-> config,
     Accounts |-> CreateAccounts(config.AccountCount),
     Agents |-> <<>>,
     v |-> NewVM,
     rnd |-> SeedSource(config, ambient),
     statsByMethod |-> -1]

\* the frame of Tick between two calls, before the first call
IdleFrame ==
    [pc |-> "idle", calls |-> 0, faults |-> 0, ret |-> "none", powerTable |-> EmptyPowerTable,
     blockMessages |-> <<>>, idx |-> 0, log |-> <<>>, draws |-> <<>>,
     createDraw |-> -1, collected |-> <<>>,
     pre |-> [Agents |-> <<>>, v |-> NewVM, rnd |-> 0, statsByMethod |-> -1]]

Run(s, t) == [sim |-> s, tick |-> t]

\* return from Tick
\* return from Tick; ret is "ok" for a nil error and otherwise names the error:
\* "read", "agent", "exitcode", "handler", "reward", "cron" or "advance"
Return(s, t, ret) ==
    Run(s, [t EXCEPT !.pc = "idle", !.ret = ret,
                     !.faults = IF ret # "ok" THEN @ + 1 ELSE @])

\* a createMiner whose params name the first account as the owner
createMinerFirstOwner(s, owner) ==
    [From |-> owner, To |-> StoragePowerActorAddr,
     Value |-> s.Config.AccountInitialBalance, Method |-> "CreateMiner",
     Params |-> [NoParams EXCEPT !.Owner = s.Accounts[1]], ReturnHandler |-> "createMiner"]

\* s.createMiner: the message; its ReturnHandler is CreateMinerReturnHandler
createMiner(s, owner) ==
    [From |-> owner, To |-> StoragePowerActorAddr,
     Value |-> s.Config.AccountInitialBalance, Method |-> "CreateMiner",
     Params |-> [NoParams EXCEPT !.Owner = owner], ReturnHandler |-> "createMiner"]

\* a handler that assigns the new agent instead of appending it
CreateMinerReturnHandlerAssign(s, msg, ret) ==
    [s EXCEPT !.Agents = <<NewMinerAgent(msg.Params.Owner, ret)>>]

\* the ReturnHandler of createMiner: a new agent is appended to s.Agents
CreateMinerReturnHandler(s, msg, ret) ==
    [s EXCEPT !.Agents = Append(@, NewMinerAgent(msg.Params.Owner, ret))]

\* an order of the phases with cron run ahead of the block rewards
PhaseAfterCronFirst(t, phase) ==
    CASE phase = "apply" -> "cron"
      [] phase = "cron" -> IF Len(t.powerTable.minerPower) = 0 THEN "advance" ELSE "reward"
      [] phase = "reward" -> "advance"

\* the order of the phases of Tick once the batch is shuffled: run messages,
\* apply block rewards, run cron, advance the epoch
PhaseAfter(t, phase) ==
    CASE phase = "apply" -> IF Len(t.powerTable.minerPower) = 0 THEN "cron" ELSE "reward"
      [] phase = "reward" -> "cron"
      [] phase = "cron" -> "advance"

(***************************************************************************)
(* Sim.Tick, step by step.  Each step takes the Sim and the frame of Tick   *)
(* and yields both as the step leaves them.                                 *)
(***************************************************************************)
\* entry of Tick and ComputePowerTable; readOk: the state reads succeed
TickBegin(s, t, readOk) ==
    LET f == [t EXCEPT !.calls = @ + 1, !.ret = "none", !.blockMessages = <<>>,
                       !.log = <<>>, !.draws = <<>>, !.createDraw = -1,
                       !.collected = <<>>, !.powerTable = EmptyPowerTable, !.idx = 0,
                       !.pre = [Agents |-> s.Agents, v |-> s.v, rnd |-> s.rnd,
                                statsByMethod |-> s.statsByMethod]]
    IN  IF ~s.v.valid THEN Run(s, [f EXCEPT !.pc = "panic"])
        ELSE IF ~readOk THEN Return(s, f, "read")
        ELSE Run(s, [f EXCEPT !.powerTable = ComputePowerTable(s.v, s.Agents),
                              !.idx = 1,
                              !.pc = IF Len(s.Agents) = 0 THEN "create" ELSE "agents"])

\* what agent.Tick(v) returns: an error, or messages
AgentResults(v, agent) ==
    {[err |-> TRUE, msgs |-> <<>>]}
    \cup {[err |-> FALSE, msgs |-> m] : m \in AgentOutputs(v, agent)}

\* a loop that, on an agent's error, runs what it has collected before it
\* returns the error
AgentTickRunCollected(s, t, out) ==
    IF out.err
    THEN LET msgs == t.blockMessages
         IN  Return([s EXCEPT !.v = [@ EXCEPT !.claims = EffectOf(s.v, msgs),
                                              !.calls = @ + Len(msgs)]],
                    [t EXCEPT !.log = [i \in 1..Len(msgs) |-> [msg |-> msgs[i], code |-> "Ok"]]],
                    "agent")
    ELSE Run(s, [t EXCEPT !.blockMessages = @ \o out.msgs,
                          !.idx = @ + 1,
                          !.pc = IF t.idx = Len(s.Agents) THEN "create" ELSE "agents"])

\* one iteration of the loop over s.Agents
AgentTick(s, t, out) ==
    IF out.err THEN Return(s, t, "agent")
    ELSE Run(s, [t EXCEPT !.blockMessages = @ \o out.msgs,
                          !.idx = @ + 1,
                          !.pc = IF t.idx = Len(s.Agents) THEN "create" ELSE "agents"])

\* a creation step that always takes the first account
MaybeCreateMinerFirstAccount(s, t) ==
    IF Len(s.Agents) < Len(s.Accounts)
    THEN LET d == Float(s.rnd)
         IN  Run([s EXCEPT !.rnd = d.rnd],
                 [t EXCEPT !.createDraw = d.val,
                           !.blockMessages =
                               IF d.val < s.Config.CreateMinerProbability
                               THEN Append(@, createMiner(s, s.Accounts[1])) ELSE @,
                           !.pc = "shuffle"])
    ELSE Run(s, [t EXCEPT !.pc = "shuffle"])

\* add at most 1 miner per epoch
MaybeCreateMiner(s, t) ==
    IF Len(s.Agents) < Len(s.Accounts)
    THEN LET d == Float(s.rnd)
             addr == s.Accounts[Len(s.Agents) + 1]
         IN  Run([s EXCEPT !.rnd = d.rnd],
                 [t EXCEPT !.createDraw = d.val,
                           !.blockMessages =
                               IF d.val < s.Config.CreateMinerProbability
                               THEN Append(@, createMiner(s, addr)) ELSE @,
                           !.pc = "shuffle"])
    ELSE Run(s, [t EXCEPT !.pc = "shuffle"])

\* shuffle messages
ShuffleMessages(s, t) ==
    LET sh == Shuffle(t.blockMessages, s.rnd)
    IN  Run([s EXCEPT !.rnd = sh.rnd],
            [t EXCEPT !.collected = t.blockMessages,
                      !.blockMessages = sh.msgs,
                      !.idx = 1,
                      !.pc = IF Len(sh.msgs) = 0 THEN PhaseAfter(t, "apply") ELSE "apply"])

\* a loop that invokes the ReturnHandler before it looks at the exit code
RunMessageHandlerFirst(s, t, outcome) ==
    LET msg == t.blockMessages[t.idx]
        code == IF outcome = "Fail" THEN "Fail" ELSE "Ok"
        r == ApplyMessage(s.v, msg, code)
        s1 == [s EXCEPT !.v = r.v]
        t1 == [t EXCEPT !.log = Append(@, [msg |-> msg, code |-> code])]
        s2 == IF msg.ReturnHandler = "createMiner"
              THEN CreateMinerReturnHandler(s1, msg, r.ret) ELSE s1
    IN  IF msg.ReturnHandler # "nil" /\ outcome = "HandlerErr"
        THEN Return(s1, t1, "handler")
        ELSE IF code # "Ok" THEN Return(s2, t1, "exitcode")
        ELSE IF t.idx = Len(t.blockMessages)
             THEN Run(s2, [t1 EXCEPT !.idx = 1, !.pc = PhaseAfter(t, "apply")])
        ELSE Run(s2, [t1 EXCEPT !.idx = @ + 1])

\* one iteration of the loop that runs the messages; outcome is "Ok", "Fail"
\* (a code other than exitcode.Ok) or "HandlerErr" (the ReturnHandler fails)
RunMessage(s, t, outcome) ==
    LET msg == t.blockMessages[t.idx]
        code == IF outcome = "Fail" THEN "Fail" ELSE "Ok"
        r == ApplyMessage(s.v, msg, code)
        s1 == [s EXCEPT !.v = r.v]
        t1 == [t EXCEPT !.log = Append(@, [msg |-> msg, code |-> code])]
        s2 == IF msg.ReturnHandler = "createMiner"
              THEN CreateMinerReturnHandler(s1, msg, r.ret) ELSE s1
    IN  IF code # "Ok" THEN Return(s1, t1, "exitcode")
        ELSE IF msg.ReturnHandler # "nil" /\ outcome = "HandlerErr"
             THEN Return(s1, t1, "handler")
        ELSE IF t.idx = Len(t.blockMessages)
             THEN Run(s2, [t1 EXCEPT !.idx = 1, !.pc = PhaseAfter(t, "apply")])
        ELSE Run(s2, [t1 EXCEPT !.idx = @ + 1])

\* a rewardMiner that submits the request whatever the win count
rewardMinerUnconditional(v, log, addr, wins, code) ==
    LET msg == [From |-> SystemActorAddr, To |-> RewardActorAddr, Value |-> 0,
                Method |-> "AwardBlockReward",
                Params |-> [NoParams EXCEPT !.Miner = addr, !.WinCount = wins],
                ReturnHandler |-> "nil"]
    IN  [v |-> ApplyMessage(v, msg, code).v,
         log |-> Append(log, [msg |-> msg, code |-> code]),
         err |-> code # "Ok"]

\* s.rewardMiner: the ledger, the log and whether it returned an error
rewardMiner(v, log, addr, wins, code) ==
    IF wins < 1 THEN [v |-> v, log |-> log, err |-> FALSE]
    ELSE LET msg == [From |-> SystemActorAddr, To |-> RewardActorAddr, Value |-> 0,
                     Method |-> "AwardBlockReward",
                     Params |-> [NoParams EXCEPT !.Miner = addr, !.WinCount = wins],
                     ReturnHandler |-> "nil"]
         IN  [v |-> ApplyMessage(v, msg, code).v,
              log |-> Append(log, [msg |-> msg, code |-> code]),
              err |-> code # "Ok"]

\* a reward loop that reads the powers from the ledger as the batch left it
RewardStepFreshTable(s, t, code) ==
    LET addr == t.powerTable.minerPower[t.idx].addr
        miner == [addr |-> addr, qaPower |-> GetClaim(s.v, addr).qaPower]
        total == TotalQualityAdjPower(s.v)
        next == IF t.idx = Len(t.powerTable.minerPower)
                THEN [t EXCEPT !.idx = 1, !.pc = PhaseAfter(t, "reward")]
                ELSE [t EXCEPT !.idx = @ + 1]
    IN  IF total > 0
        THEN LET wcr == WinCount(s.rnd, miner.qaPower, total)
                 s1 == [s EXCEPT !.rnd = wcr.rnd]
             IN  IF wcr.w.pc = "hang" THEN Run(s1, [t EXCEPT !.pc = "hung"])
                 ELSE LET wins == wcr.w.winCount
                          rw == rewardMiner(s.v, t.log, miner.addr, wins, code)
                          s2 == [s1 EXCEPT !.v = rw.v]
                          drawn == Append(t.draws, [addr |-> miner.addr, wins |-> wins])
                      IN  IF rw.err
                          THEN Return(s2, [t EXCEPT !.log = rw.log, !.draws = drawn], "reward")
                          ELSE Run(s2, [next EXCEPT !.log = rw.log, !.draws = drawn])
        ELSE Run(s, next)

\* a reward loop without the guard on the total power
RewardStepUnguarded(s, t, code) ==
    LET miner == t.powerTable.minerPower[t.idx]
        total == IF t.powerTable.totalQAPower > 0 THEN t.powerTable.totalQAPower ELSE 1
        wcr == WinCount(s.rnd, miner.qaPower, total)
    IN  Run([s EXCEPT !.rnd = wcr.rnd],
            [t EXCEPT !.draws = Append(@, [addr |-> miner.addr, wins |-> wcr.w.winCount]),
                      !.idx = IF t.idx = Len(t.powerTable.minerPower) THEN 1 ELSE @ + 1,
                      !.pc = IF t.idx = Len(t.powerTable.minerPower)
                             THEN PhaseAfter(t, "reward") ELSE "reward"])

\* one iteration of the loop that applies the block rewards
RewardStep(s, t, code) ==
    LET miner == t.powerTable.minerPower[t.idx]
        next == IF t.idx = Len(t.powerTable.minerPower)
                THEN [t EXCEPT !.idx = 1, !.pc = PhaseAfter(t, "reward")]
                ELSE [t EXCEPT !.idx = @ + 1]
    IN  IF t.powerTable.totalQAPower > 0
        THEN LET wcr == WinCount(s.rnd, miner.qaPower, t.powerTable.totalQAPower)
                 s1 == [s EXCEPT !.rnd = wcr.rnd]
             IN  IF wcr.w.pc = "hang" THEN Run(s1, [t EXCEPT !.pc = "hung"])
                 ELSE LET wins == wcr.w.winCount
                          rw == rewardMiner(s.v, t.log, miner.addr, wins, code)
                          s2 == [s1 EXCEPT !.v = rw.v]
                          drawn == Append(t.draws, [addr |-> miner.addr, wins |-> wins])
                      IN  IF rw.err
                          THEN Return(s2, [t EXCEPT !.log = rw.log, !.draws = drawn], "reward")
                          ELSE Run(s2, [next EXCEPT !.log = rw.log, !.draws = drawn])
        ELSE Run(s, next)

\* a cron step that stores the stats before it looks at the exit code
RunCronStatsFirst(s, t, code) ==
    LET msg == [From |-> SystemActorAddr, To |-> CronActorAddr, Value |-> 0,
                Method |-> "EpochTick", Params |-> NoParams, ReturnHandler |-> "nil"]
        r == ApplyMessage(s.v, msg, code)
        s1 == [s EXCEPT !.v = r.v, !.statsByMethod = r.v.calls]
        t1 == [t EXCEPT !.log = Append(@, [msg |-> msg, code |-> code])]
    IN  IF code # "Ok" THEN Return(s1, t1, "cron")
        ELSE Run(s1, [t1 EXCEPT !.idx = 1, !.pc = PhaseAfter(t, "cron")])

\* run cron, store last stats
RunCron(s, t, code) ==
    LET msg == [From |-> SystemActorAddr, To |-> CronActorAddr, Value |-> 0,
                Method |-> "EpochTick", Params |-> NoParams, ReturnHandler |-> "nil"]
        r == ApplyMessage(s.v, msg, code)
        s1 == [s EXCEPT !.v = r.v]
        t1 == [t EXCEPT !.log = Append(@, [msg |-> msg, code |-> code])]
    IN  IF code # "Ok" THEN Return(s1, t1, "cron")
        ELSE Run([s1 EXCEPT !.statsByMethod = r.v.calls],
                 [t1 EXCEPT !.idx = 1, !.pc = PhaseAfter(t, "cron")])

\* an advance that asks the ledger for the epoch it is at already
AdvanceEpochSame(s, t, ok) ==
    Return([s EXCEPT !.v = WithEpoch(s.v, s.v.epoch, ok)], t,
           IF ok THEN "ok" ELSE "advance")

\* s.v, err = s.v.WithEpoch(s.v.GetEpoch() + 1); return err
AdvanceEpoch(s, t, ok) ==
    Return([s EXCEPT !.v = WithEpoch(s.v, s.v.epoch + 1, ok)], t,
           IF ok THEN "ok" ELSE "advance")

(***************************************************************************)
(* MultiSigActorState: the linear unlock helpers.  abi.TokenAmount and      *)
(* abi.ChainEpoch are signed machine integers, modelled as two's-complement *)
(* words of WordBits bits; uint64(x) is the same word read as unsigned.     *)
(***************************************************************************)
WordBits == 8

Word == 2 ^ WordBits

\* uint64(x): the word of x read as an unsigned integer
ToUint64(x) == x % Word

\* the unsigned word u read as a signed integer
ToInt64(u) == IF u % Word >= Word \div 2 THEN (u % Word) - Word ELSE u % Word

\* a / b of Go on signed integers, b # 0: the quotient truncated toward zero
Quo(a, b) ==
    LET q == (IF a < 0 THEN -a ELSE a) \div (IF b < 0 THEN -b ELSE b)
    IN  IF (a < 0) = (b < 0) THEN q ELSE -q

\* an unlock that multiplies by the remaining epochs before it divides
AmountLockedLinear(st, elapsedEpoch) ==
    IF elapsedEpoch >= st.UnlockDuration \/ st.UnlockDuration = 0
    THEN [panic |-> FALSE, val |-> 0]
    ELSE [panic |-> FALSE,
          val |-> Quo(st.InitialBalance * (st.UnlockDuration - elapsedEpoch),
                      st.UnlockDuration)]

\* st.AmountLocked(elapsedEpoch): the amount returned, or a run-time panic
\* (integer divide by zero)
AmountLocked(st, elapsedEpoch) ==
    IF elapsedEpoch >= st.UnlockDuration THEN [panic |-> FALSE, val |-> 0]
    ELSE IF st.UnlockDuration = 0 THEN [panic |-> TRUE, val |-> 0]
    ELSE LET lockedProportion ==
                 Quo(ToInt64(ToUint64(st.UnlockDuration - elapsedEpoch)), st.UnlockDuration)
         IN  [panic |-> FALSE,
              val |-> ToInt64(ToUint64(st.InitialBalance) * ToUint64(lockedProportion))]

\* st._hasAvailable(currBalance, amountToSpend, currEpoch): the boolean
\* returned, or the panic of AmountLocked
_hasAvailable(st, currBalance, amountToSpend, currEpoch) ==
    IF amountToSpend < 0 \/ currBalance < amountToSpend
    THEN [panic |-> FALSE, val |-> FALSE]
    ELSE LET locked == AmountLocked(st, ToInt64(ToUint64(currEpoch - st.StartEpoch)))
         IN  IF locked.panic THEN [panic |-> TRUE, val |-> FALSE]
             ELSE IF ToInt64(ToUint64(currBalance - amountToSpend)) < locked.val
                  THEN [panic |-> FALSE, val |-> FALSE]
             ELSE [panic |-> FALSE, val |-> TRUE]

\* no call of a helper made yet
MultiSigIdle ==
    [st |-> [InitialBalance |-> 0, StartEpoch |-> 0, UnlockDuration |-> 0],
     op |-> "none", elapsedEpoch |-> 0, currBalance |-> 0, amountToSpend |-> 0,
     currEpoch |-> 0, panic |-> FALSE, locked |-> 0, available |-> FALSE]

(***************************************************************************)
(* Specification of one run                                                 *)
(***************************************************************************)
InitialBalance == 1000
ScenarioAccounts == 3

Configs ==
    [AccountCount : {1, ScenarioAccounts, MaxAccounts},
     AccountInitialBalance : {InitialBalance},
     Seed : 0..MaxSeed,
     CreateMinerProbability : {Scale \div 2, Scale}]

Codes == {"Ok", "Fail"}

Outcomes == {"Ok", "Fail", "HandlerErr"}

Do(run) == sim' = run.sim /\ tick' = run.tick

\* the ledger and the agents fail in at most MaxFaults calls of Tick
MayFail(t, faulty) == faulty => t.faults < MaxFaults

Init ==
    /\ \E config \in Configs :
          /\ sim = NewSim(config, 0)
          /\ twin = Run(NewSim(config, 0), IdleFrame)
    /\ tick = IdleFrame
    /\ wc = WinEnter(0, 1, 0)
    /\ ms = MultiSigIdle

Begin ==
    /\ tick.pc = "idle"
    /\ tick.calls < MaxTicks
    /\ \E readOk \in BOOLEAN : MayFail(tick, ~readOk) /\ Do(TickBegin(sim, tick, readOk))
    /\ UNCHANGED <<twin, wc, ms>>

Agent ==
    /\ tick.pc = "agents"
    /\ \E out \in AgentResults(sim.v, sim.Agents[tick.idx]) :
          MayFail(tick, out.err) /\ Do(AgentTick(sim, tick, out))
    /\ UNCHANGED <<twin, wc, ms>>

Create ==
    /\ tick.pc = "create"
    /\ Do(MaybeCreateMiner(sim, tick))
    /\ UNCHANGED <<twin, wc, ms>>

Shuffling ==
    /\ tick.pc = "shuffle"
    /\ Do(ShuffleMessages(sim, tick))
    /\ UNCHANGED <<twin, wc, ms>>

Apply ==
    /\ tick.pc = "apply"
    /\ \E outcome \in Outcomes :
          /\ outcome = "HandlerErr" => tick.blockMessages[tick.idx].ReturnHandler # "nil"
          /\ MayFail(tick, outcome # "Ok")
          /\ Do(RunMessage(sim, tick, outcome))
    /\ UNCHANGED <<twin, wc, ms>>

Reward ==
    /\ tick.pc = "reward"
    /\ \E code \in Codes : MayFail(tick, code # "Ok") /\ Do(RewardStep(sim, tick, code))
    /\ UNCHANGED <<twin, wc, ms>>

Cron ==
    /\ tick.pc = "cron"
    /\ \E code \in Codes : MayFail(tick, code # "Ok") /\ Do(RunCron(sim, tick, code))
    /\ UNCHANGED <<twin, wc, ms>>

Advance ==
    /\ tick.pc = "advance"
    /\ \E ok \in BOOLEAN : MayFail(tick, ~ok) /\ Do(AdvanceEpoch(sim, tick, ok))
    /\ UNCHANGED <<twin, wc, ms>>

Next == Begin \/ Agent \/ Create \/ Shuffling \/ Apply \/ Reward \/ Cron \/ Advance

Spec == Init /\ [][Next]_vars

(***************************************************************************)
(* Specification of two runs constructed alike and driven by the same      *)
(* agent behaviour and the same ledger outcomes                             *)
(***************************************************************************)
Ambients == {0, 1}

Do2(run) == twin' = run

SameStep == twin.tick.pc = tick.pc /\ twin.tick.idx = tick.idx

InitPair ==
    /\ \E config \in Configs : \E ambient \in Ambients :
          /\ sim = NewSim(config, 0)
          /\ twin = Run(NewSim(config, ambient), IdleFrame)
    /\ tick = IdleFrame
    /\ wc = WinEnter(0, 1, 0)
    /\ ms = MultiSigIdle

BeginPair ==
    /\ tick.pc = "idle" /\ SameStep
    /\ tick.calls < MaxTicks
    /\ \E readOk \in BOOLEAN :
          /\ MayFail(tick, ~readOk)
          /\ Do(TickBegin(sim, tick, readOk))
          /\ Do2(TickBegin(twin.sim, twin.tick, readOk))
    /\ UNCHANGED <<wc, ms>>

AgentPair ==
    /\ tick.pc = "agents" /\ SameStep
    /\ \E out \in AgentResults(sim.v, sim.Agents[tick.idx]) :
          /\ MayFail(tick, out.err)
          /\ Do(AgentTick(sim, tick, out))
          /\ Do2(AgentTick(twin.sim, twin.tick, out))
    /\ UNCHANGED <<wc, ms>>

CreatePair ==
    /\ tick.pc = "create" /\ SameStep
    /\ Do(MaybeCreateMiner(sim, tick))
    /\ Do2(MaybeCreateMiner(twin.sim, twin.tick))
    /\ UNCHANGED <<wc, ms>>

ShufflingPair ==
    /\ tick.pc = "shuffle" /\ SameStep
    /\ Do(ShuffleMessages(sim, tick))
    /\ Do2(ShuffleMessages(twin.sim, twin.tick))
    /\ UNCHANGED <<wc, ms>>

ApplyPair ==
    /\ tick.pc = "apply" /\ SameStep
    /\ Len(twin.tick.blockMessages) >= tick.idx
    /\ \E outcome \in Outcomes :
          /\ outcome = "HandlerErr" => tick.blockMessages[tick.idx].ReturnHandler # "nil"
          /\ MayFail(tick, outcome # "Ok")
          /\ Do(RunMessage(sim, tick, outcome))
          /\ Do2(RunMessage(twin.sim, twin.tick, outcome))
    /\ UNCHANGED <<wc, ms>>

RewardPair ==
    /\ tick.pc = "reward" /\ SameStep
    /\ \E code \in Codes :
          /\ MayFail(tick, code # "Ok")
          /\ Do(RewardStep(sim, tick, code))
          /\ Do2(RewardStep(twin.sim, twin.tick, code))
    /\ UNCHANGED <<wc, ms>>

CronPair ==
    /\ tick.pc = "cron" /\ SameStep
    /\ \E code \in Codes :
          /\ MayFail(tick, code # "Ok")
          /\ Do(RunCron(sim, tick, code))
          /\ Do2(RunCron(twin.sim, twin.tick, code))
    /\ UNCHANGED <<wc, ms>>

AdvancePair ==
    /\ tick.pc = "advance" /\ SameStep
    /\ \E ok \in BOOLEAN :
          /\ MayFail(tick, ~ok)
          /\ Do(AdvanceEpoch(sim, tick, ok))
          /\ Do2(AdvanceEpoch(twin.sim, twin.tick, ok))
    /\ UNCHANGED <<wc, ms>>

NextPair ==
    \/ BeginPair \/ AgentPair \/ CreatePair \/ ShufflingPair
    \/ ApplyPair \/ RewardPair \/ CronPair \/ AdvancePair

SpecPair == InitPair /\ [][NextPair]_vars

(***************************************************************************)
(* Specification of WinCount alone: the powers and the drawn h are chosen   *)
(* initially, every step is one evaluation of the loop condition            *)
(***************************************************************************)
MaxTotalPower == 8

InitWin ==
    /\ \E config \in Configs :
          /\ config.Seed = 0 /\ config.AccountCount = 1
          /\ config.CreateMinerProbability = Scale
          /\ sim = NewSim(config, 0)
          /\ twin = Run(NewSim(config, 0), IdleFrame)
    /\ tick = IdleFrame
    /\ \E totalPower \in 1..MaxTotalPower :
          \E minerPower \in 0..totalPower :
             \E h \in 0..(Scale - 1) :
                wc = WinEnter(minerPower, totalPower, h)
    /\ ms = MultiSigIdle

WinLoop ==
    /\ wc.pc = "loop"
    /\ wc' = WinStep(wc)
    /\ UNCHANGED <<sim, tick, twin, ms>>

NextWin == WinLoop

SpecWin == InitWin /\ [][NextWin]_vars

(***************************************************************************)
(* Specification of the multisig helpers alone: the state of the actor is   *)
(* chosen initially, every step is one call of a helper                     *)
(***************************************************************************)
MaxDuration == 3
MaxEpoch == 4
MaxBalance == 5

InitMultiSig ==
    /\ \E config \in Configs :
          /\ config.Seed = 0 /\ config.AccountCount = 1
          /\ config.CreateMinerProbability = Scale
          /\ sim = NewSim(config, 0)
          /\ twin = Run(NewSim(config, 0), IdleFrame)
    /\ tick = IdleFrame
    /\ wc = WinEnter(0, 1, 0)
    /\ \E st \in [InitialBalance : -1..MaxBalance, StartEpoch : 0..MaxEpoch,
                  UnlockDuration : -1..MaxDuration] :
          ms = [MultiSigIdle EXCEPT !.st = st]

CallAmountLocked ==
    /\ ms.op = "none"
    /\ \E elapsedEpoch \in (-MaxEpoch)..MaxEpoch :
          LET r == AmountLocked(ms.st, elapsedEpoch)
          IN  ms' = [ms EXCEPT !.op = "AmountLocked", !.elapsedEpoch = elapsedEpoch,
                               !.panic = r.panic, !.locked = r.val]
    /\ UNCHANGED <<sim, tick, twin, wc>>

CallHasAvailable ==
    /\ ms.op = "none"
    /\ \E currBalance \in -1..MaxBalance : \E amountToSpend \in -1..MaxBalance :
          \E currEpoch \in 0..MaxEpoch :
             LET r == _hasAvailable(ms.st, currBalance, amountToSpend, currEpoch)
             IN  ms' = [ms EXCEPT !.op = "_hasAvailable", !.currBalance = currBalance,
                                  !.amountToSpend = amountToSpend,
                                  !.currEpoch = currEpoch,
                                  !.panic = r.panic, !.available = r.val]
    /\ UNCHANGED <<sim, tick, twin, wc>>

NextMultiSig == CallAmountLocked \/ CallHasAvailable

SpecMultiSig == InitMultiSig /\ [][NextMultiSig]_vars

(***************************************************************************)
(* Properties                                                               *)
(***************************************************************************)
IsPrefix(a, b) == Len(a) <= Len(b) /\ \A i \in 1..Len(a) : a[i] = b[i]

\* the messages of a log, in order
Messages(log) == [i \in 1..Len(log) |-> log[i].msg]

IsOk(entry) == entry.code = "Ok"

\* the requests that were applied: the calls that exited with exitcode.Ok
Applied(log) == Messages(SelectSeq(log, IsOk))

IsReward(entry) == entry.msg.Method = "AwardBlockReward"

IsCron(entry) == entry.msg.Method = "EpochTick"

IsCreateMiner(msg) == msg.Method = "CreateMiner"

IsWin(draw) == draw.wins >= 1

\* C1: across Tick calls, successful or aborted, the agent list only grows:
\* every step keeps the agents it had, in place, and a Tick call appends at
\* most one agent to the list it started with.
C1_AgentsOnlyGrow ==
    [][/\ IsPrefix(sim.Agents, sim'.Agents)
       /\ IsPrefix(tick'.pre.Agents, sim'.Agents)
       /\ Len(sim'.Agents) <= Len(tick'.pre.Agents) + 1]_vars

\* an aborted Tick call has appended an agent to a list that had one already
C1_Witness ==
    /\ tick.pc = "idle" /\ tick.ret \notin {"ok", "none"}
    /\ Len(tick.pre.Agents) >= 1
    /\ Len(sim.Agents) = Len(tick.pre.Agents) + 1

\* C2: the cron EpochTick request is the last request applied in a tick: it
\* comes after every batch request and every reward request, and the tick
\* that reaches the epoch advance has applied the whole batch and then cron.
C2_CronIsLast ==
    /\ \A i \in 1..Len(tick.log) : IsCron(tick.log[i]) => i = Len(tick.log)
    /\ (tick.pc = "advance" \/ (tick.pc = "idle" /\ tick.ret \in {"ok", "advance"}))
          => /\ Len(tick.log) > 0
             /\ IsCron(tick.log[Len(tick.log)])
             /\ IsPrefix(tick.blockMessages, Messages(tick.log))
             /\ Len(SelectSeq(tick.log, IsReward))
                   = Len(tick.log) - Len(tick.blockMessages) - 1

\* a tick has applied batch requests, a reward and then cron
C2_Witness ==
    /\ tick.pc = "idle" /\ tick.ret = "ok"
    /\ Len(tick.blockMessages) >= 1
    /\ Len(SelectSeq(tick.log, IsReward)) >= 1

\* C3: every AwardBlockReward request of a tick is for a producer whose claim
\* was found in the ledger state the tick started from, whose nominal power
\* met the consensus minimum there, and carries the win count drawn for that
\* producer in this tick, which is at least 1.
C3_RewardOnlyIfEligibleAndWon ==
    LET rewards == SelectSeq(tick.log, IsReward)
        wins == SelectSeq(tick.draws, IsWin)
    IN  \A j \in 1..Len(rewards) :
           LET params == rewards[j].msg.Params
           IN  /\ GetClaim(tick.pre.v, params.Miner).found
               /\ MinerNominalPowerMeetsConsensusMinimum(tick.pre.v, params.Miner)
               /\ j <= Len(wins)
               /\ wins[j].addr = params.Miner
               /\ wins[j].wins = params.WinCount
               /\ params.WinCount >= 1

\* a reward was submitted in a tick that started with a producer whose claim
\* was found but did not meet the minimum
C3_Witness ==
    /\ Len(SelectSeq(tick.log, IsReward)) >= 1
    /\ \E i \in 1..Len(tick.pre.Agents) :
          /\ GetClaim(tick.pre.v, tick.pre.Agents[i].IDAddress).found
          /\ ~MinerNominalPowerMeetsConsensusMinimum(tick.pre.v, tick.pre.Agents[i].IDAddress)

\* C4: when the total quality-adjusted power of the tick's power table is 0,
\* the tick calls WinCount for no producer (no draw is taken from the source
\* in the reward phase) and submits no AwardBlockReward request.
C4_NoRewardWithoutTotalPower ==
    (tick.powerTable.totalQAPower = 0)
       => /\ tick.draws = <<>>
          /\ SelectSeq(tick.log, IsReward) = <<>>
          /\ tick.pc # "hung"

\* the reward phase of a tick has run over a non-empty table with total 0
C4_Witness ==
    /\ tick.powerTable.totalQAPower = 0
    /\ Len(tick.powerTable.minerPower) >= 1
    /\ tick.pc = "advance"

\* C5: WinCount(0, totalPower > 0) returns 0 whatever h in [0,1) is drawn,
\* h = 0 included: the loop is left at once with a win count of 0.
C5_ZeroPowerZeroWins ==
    (wc.minerPower = 0) => (wc.pc # "hang" /\ wc.winCount = 0 /\ wc.rhs = 0)

\* WinCount has returned for a zero power and a drawn h of 0
C5_Witness == wc.minerPower = 0 /\ wc.h = 0 /\ wc.pc = "done" /\ wc.totalPower > 1

BatchAbortedAfter(n) ==
    LET before == SubSeq(tick.blockMessages, 1, tick.idx - 1)
        done == SubSeq(tick.blockMessages, 1, n)
    IN  /\ Applied(tick.log) = done
        /\ Len(tick.log) = tick.idx
        /\ sim.v.claims = EffectOf(tick.pre.v, done)
        /\ sim.v.epoch = tick.pre.v.epoch
        /\ Len(sim.Agents) = Len(tick.pre.Agents) + Len(SelectSeq(before, IsCreateMiner))

\* C7 as stated: when the request at position i of the shuffled batch exits
\* with a non-success code or its ReturnHandler fails, Tick returns an error
\* and exactly the requests before position i have been applied: no later
\* batch request, no reward, no cron, and the epoch is not advanced.
C7_Original ==
    (tick.pc = "idle" /\ tick.ret \in {"exitcode", "handler"})
       => BatchAbortedAfter(tick.idx - 1)

\* C7 as amended: as above when the request exits with a non-success code;
\* when it is the ReturnHandler that fails, the request at position i itself
\* has been applied as well.
C7_BatchAbort ==
    (tick.pc = "idle" /\ tick.ret \in {"exitcode", "handler"})
       => BatchAbortedAfter(IF tick.ret = "handler" THEN tick.idx ELSE tick.idx - 1)

\* a request in the middle of a batch has failed with a non-success code
C7_Witness ==
    /\ tick.pc = "idle" /\ tick.ret = "exitcode"
    /\ tick.idx >= 2 /\ tick.idx < Len(tick.blockMessages)

\* C8: in a tick where the agents are fewer than the accounts and the draw is
\* below CreateMinerProbability, the batch holds exactly one CreateMiner
\* request, sent from Accounts[len(Agents)] with the initial account balance
\* as value (and none otherwise); with probability 1.0 and 3 accounts, one
\* successful Tick leaves one agent, owned by the first account, and 3
\* accounts.
C8_CreateMiner ==
    LET creates == SelectSeq(tick.blockMessages, IsCreateMiner)
        drawn == /\ tick.createDraw >= 0
                 /\ tick.createDraw < sim.Config.CreateMinerProbability
    IN  /\ tick.pc \in {"shuffle", "apply", "reward", "cron", "advance"}
           => IF drawn
              THEN /\ Len(creates) = 1
                   /\ creates[1].From = sim.Accounts[Len(tick.pre.Agents) + 1]
                   /\ creates[1].Params.Owner = creates[1].From
                   /\ creates[1].Value = sim.Config.AccountInitialBalance
                   /\ Len(tick.pre.Agents) < Len(sim.Accounts)
              ELSE creates = <<>>
        /\ ( /\ tick.pc = "idle" /\ tick.ret = "ok" /\ tick.calls = 1
             /\ sim.Config.CreateMinerProbability = Scale
             /\ sim.Config.AccountCount = ScenarioAccounts )
           => /\ Len(sim.Agents) = 1
              /\ sim.Agents[1].Owner = sim.Accounts[1]
              /\ Len(sim.Accounts) = ScenarioAccounts

\* a second producer is being created, from the second account
C8_Witness ==
    /\ tick.pc = "apply"
    /\ Len(tick.pre.Agents) = 1
    /\ Len(SelectSeq(tick.blockMessages, IsCreateMiner)) = 1

RECURSIVE RefFrom(_, _, _, _, _)
\* inverse-transform sampling over the cumulative sum of the PMF values: the
\* smallest k from k on whose survival value 1 - CDF(k) is at most h, or -1
\* when the PMF has vanished and no such k exists
RefFrom(num, den, h, k, cdfBefore) ==
    LET pmf == poissonPMF(num, den, k)
        cdf == cdfBefore + pmf
    IN  IF Scale - cdf <= h THEN k
        ELSE IF pmf = 0 THEN -1
        ELSE RefFrom(num, den, h, k + 1, cdf)

RefSample(minerPower, totalPower, h) ==
    RefFrom(ExpectedLeaders * minerPower, totalPower, h, 0, 0)

\* C9 as stated: for every minerPower, totalPower > 0 and h in [0,1),
\* WinCount returns, and what it returns is the smallest k >= 0 whose
\* Poisson(lambda) survival value P(X > k) is at most h, the result of the
\* reference inverse-transform sampler over the cumulative sum of the PMF.
C9_Original ==
    (wc.pc # "loop")
       => /\ wc.pc = "done"
          /\ wc.winCount = RefSample(wc.minerPower, wc.totalPower, wc.h)

\* C10: when an agent's Tick returns an error, Sim.Tick returns it at once:
\* no request of the tick has been submitted, the ledger, the agent list and
\* the random source are as the tick found them, the agents after the
\* failing one have not been asked, and the epoch has not advanced.
C10_AgentErrorAborts ==
    (tick.pc = "idle" /\ tick.ret = "agent")
       => /\ tick.log = <<>>
          /\ sim.v = tick.pre.v
          /\ sim.Agents = tick.pre.Agents
          /\ sim.rnd = tick.pre.rnd
          /\ tick.idx <= Len(sim.Agents)
          /\ Len(tick.blockMessages) < tick.idx

\* the second agent has failed after the first one handed in a request
C10_Witness ==
    /\ tick.pc = "idle" /\ tick.ret = "agent"
    /\ tick.idx = 2 /\ Len(tick.blockMessages) = 1

\* C11: in a successful tick the phases come in a fixed order: first every
\* request of the shuffled batch, in batch order; then the rewards, in the
\* order of the power table, one AwardBlockReward for each table entry that
\* drew a win count of at least 1 and none for the others; then the cron
\* request; and only then the epoch advance.  No reward is logged before the
\* batch has been run to its end.
C11_PhaseOrder ==
    LET n == Len(tick.blockMessages)
        wins == SelectSeq(tick.draws, IsWin)
        table == tick.powerTable.minerPower
    IN  /\ (tick.pc \in {"reward", "cron", "advance"})
              => /\ IsPrefix(tick.blockMessages, Messages(tick.log))
                 /\ \A i \in 1..Len(tick.log) : IsReward(tick.log[i]) => i > n
        /\ (tick.pc = "idle" /\ tick.ret = "ok")
              => /\ Len(tick.log) = n + Len(wins) + 1
                 /\ \A i \in 1..Len(tick.log) : IsOk(tick.log[i])
                 /\ \A i \in 1..n : tick.log[i].msg = tick.blockMessages[i]
                 /\ \A j \in 1..Len(wins) :
                       /\ IsReward(tick.log[n + j])
                       /\ tick.log[n + j].msg.Params.Miner = wins[j].addr
                       /\ tick.log[n + j].msg.Params.WinCount = wins[j].wins
                 /\ IsCron(tick.log[n + Len(wins) + 1])
                 /\ (tick.powerTable.totalQAPower > 0)
                       => /\ Len(tick.draws) = Len(table)
                          /\ \A i \in 1..Len(table) : tick.draws[i].addr = table[i].addr
                 /\ sim.v.epoch = tick.pre.v.epoch + 1
                 /\ sim.v.calls = 0

\* a successful tick has run a batch and then gone over a table of two
\* entries, one that won and one that did not
C11_Witness ==
    /\ tick.pc = "idle" /\ tick.ret = "ok"
    /\ Len(tick.blockMessages) >= 1
    /\ Len(tick.draws) = 2
    /\ Len(SelectSeq(tick.draws, IsWin)) = 1

\* the number of positions of seq that hold x
Count(seq, x) == Cardinality({i \in 1..Len(seq) : seq[i] = x})

IsPermutation(a, b) ==
    /\ Len(a) = Len(b)
    /\ \A i \in 1..Len(a) : Count(a, a[i]) = Count(b, a[i])

\* C12: once shuffled, the batch of a tick is a permutation of the requests
\* collected for it: the requests the agents of the tick handed in plus at
\* most one create-producer request.  The requests are run in the shuffled
\* order, each one once, and each one on the ledger state that the requests
\* applied before it have left.
C12_BatchIsPermutation ==
    LET shuffled == \/ tick.pc \in {"apply", "reward", "cron", "advance", "hung"}
                    \/ tick.pc = "idle" /\ tick.ret \notin {"none", "read", "agent"}
        ran == IF Len(tick.log) < Len(tick.blockMessages)
               THEN Len(tick.log) ELSE Len(tick.blockMessages)
    IN  shuffled
           => /\ IsPermutation(tick.collected, tick.blockMessages)
              /\ Len(SelectSeq(tick.collected, IsCreateMiner)) <= 1
              /\ \A i \in 1..Len(tick.collected) :
                    LET msg == tick.collected[i]
                    IN  \/ IsCreateMiner(msg)
                        \/ \E k \in 1..Len(tick.pre.Agents) :
                              /\ msg.From = tick.pre.Agents[k].Owner
                              /\ msg.To = tick.pre.Agents[k].IDAddress
              /\ \A i \in 1..ran : tick.log[i].msg = tick.blockMessages[i]
              /\ sim.v.valid => sim.v.claims = EffectOf(tick.pre.v, Applied(tick.log))
              /\ (tick.pc # "idle" \/ tick.ret \notin {"ok", "advance"})
                    => sim.v.calls = tick.pre.v.calls + Len(tick.log)

\* a successful tick has run a batch of agent requests and a create-producer
\* request in an order other than the one they were collected in
C12_Witness ==
    /\ tick.pc = "idle" /\ tick.ret = "ok"
    /\ Len(tick.collected) >= 3
    /\ tick.blockMessages # tick.collected
    /\ Len(SelectSeq(tick.collected, IsCreateMiner)) = 1

\* C13: the power table of a tick is computed once, from the ledger and the
\* agents as the tick found them, before any agent is ticked or any request
\* applied, and is not computed again: every win count of the tick is drawn
\* with the power and the total of that table, and every reward is for a
\* producer that was an agent when the tick began.  A producer created in
\* tick T, or whose power changed in T, gets no reward from that change in T.
C13_PowerTableFixed ==
    [][LET table == ComputePowerTable(tick'.pre.v, tick'.pre.Agents)
           n == Len(tick'.draws)
           rewards == SelectSeq(tick'.log, IsReward)
       IN  /\ (tick'.pc \notin {"idle", "panic"}) => tick'.powerTable = table
           /\ (tick'.pc = "idle" /\ tick'.ret \notin {"none", "read"})
                 => tick'.powerTable = table
           /\ (tick'.draws # tick.draws /\ n > 0)
                 => /\ tick'.pre = tick.pre
                    /\ table.totalQAPower > 0
                    /\ n <= Len(table.minerPower)
                    /\ tick'.draws[n].addr = table.minerPower[n].addr
                    /\ tick'.draws[n].wins =
                          WinCount(sim.rnd, table.minerPower[n].qaPower,
                                   table.totalQAPower).w.winCount
           /\ \A j \in 1..Len(rewards) :
                 \E k \in 1..Len(tick'.pre.Agents) :
                    tick'.pre.Agents[k].IDAddress = rewards[j].msg.Params.Miner]_vars

\* rewards are being drawn in a tick whose batch has changed the power of a
\* producer of the table and has created another producer
C13_Witness ==
    /\ tick.pc = "cron"
    /\ Len(tick.draws) >= 1
    /\ Len(sim.Agents) > Len(tick.pre.Agents)
    /\ ComputePowerTable(sim.v, sim.Agents) # tick.powerTable
    /\ TotalQualityAdjPower(sim.v) # tick.powerTable.totalQAPower

\* C14 as stated: GetCallStats returns the statistics of the last completed
\* tick: a tick that aborts (read error, agent error, failed batch request,
\* failed reward, failed cron request) or that fails at the epoch advance
\* leaves the stored statistics as it found them.
C14_Original ==
    (tick.pc = "idle" /\ tick.ret \notin {"ok", "none"})
       => sim.statsByMethod = tick.pre.statsByMethod

\* C14 as amended: the stored statistics are replaced only by the step that
\* follows a successful cron request, with the ledger's statistics at that
\* point; a tick that aborts up to and including the cron request leaves them
\* as it found them; a tick that fails at the epoch advance has replaced them
\* already, as a successful tick has.
C14_StatsReplacedAfterCron ==
    [][/\ (sim'.statsByMethod # sim.statsByMethod)
             => /\ tick.pc = "cron" /\ tick'.pc = "advance"
                /\ IsCron(tick'.log[Len(tick'.log)])
                /\ IsOk(tick'.log[Len(tick'.log)])
       /\ (tick.pc = "cron" /\ tick'.pc = "advance")
             => sim'.statsByMethod = sim'.v.calls
       /\ (tick'.pc = "idle"
           /\ tick'.ret \in {"read", "agent", "exitcode", "handler", "reward", "cron"})
             => sim'.statsByMethod = tick'.pre.statsByMethod
       /\ (tick'.pc = "idle" /\ tick'.ret \in {"ok", "advance"})
             => sim'.statsByMethod = tick'.pre.v.calls + Len(tick'.log)]_vars

\* a tick that follows a completed one has failed at its cron request, with
\* the ledger's statistics differing from the stored ones
C14_Witness ==
    /\ tick.pc = "idle" /\ tick.ret = "cron"
    /\ tick.pre.statsByMethod >= 0
    /\ sim.v.calls # sim.statsByMethod

C16_Original ==
    /\ (tick.pc = "idle" /\ tick.ret = "advance")
          => /\ sim.v.valid
             /\ sim.v.epoch = tick.pre.v.epoch
             /\ sim.v.claims = EffectOf(tick.pre.v, Applied(tick.log))
    /\ tick.pc # "panic"

\* C17: there are never more agents than accounts; the i-th agent is the one
\* created from Accounts[i]; no account owns two producer agents and no two
\* agents stand for the same producer.  This holds in every state, also after
\* a tick has aborted before or after its create-producer request was applied
\* and the creation is tried again in a later tick.
C17_OneAgentPerAccount ==
    /\ Len(sim.Agents) <= Len(sim.Accounts)
    /\ \A i \in 1..Len(sim.Agents) : sim.Agents[i].Owner = sim.Accounts[i]
    /\ \A i, j \in 1..Len(sim.Agents) :
          i # j => /\ sim.Agents[i].Owner # sim.Agents[j].Owner
                   /\ sim.Agents[i].IDAddress # sim.Agents[j].IDAddress

\* a creation that was applied in a tick whose ReturnHandler failed has been
\* tried again, and a further producer created after it
C17_Witness ==
    /\ tick.pc = "idle" /\ tick.ret = "ok"
    /\ Len(sim.Agents) >= 2
    /\ Len(sim.v.claims) > Len(sim.Agents)

\* C18 as stated: the WinCount loop terminates for every power share with
\* 0 <= minerPower <= totalPower, totalPower > 0 and every drawn h in [0,1),
\* h = 0 with lambda > 0 included: the loop is never in a state where its
\* condition rhs > h holds and the body no longer changes rhs.
C18_Original == wc.pc # "hang"

C20_Original ==
    (ms.op = "_hasAvailable")
       => /\ ~ms.panic
          /\ ms.available =
                (/\ 0 <= ms.amountToSpend
                 /\ ms.amountToSpend <= ms.currBalance
                 /\ ms.currBalance - ms.amountToSpend
                       >= AmountLocked(ms.st, ms.currEpoch - ms.st.StartEpoch).val)

====
